---- MODULE Spec2Model ----
(***************************************************************************)
(* A model of project3.py: a disk-resident B-tree index of minimum degree  *)
(* T = 10 kept in 512-byte blocks behind a small write-back page cache,    *)
(* driven by one command per process (create, insert, search, load,        *)
(* print).                                                                 *)
(*                                                                         *)
(* A block is held as its 64 big-endian 8-byte fields (field w occupies    *)
(* bytes 8w..8w+7).  Python lists are indexed from 0 and so are the        *)
(* functions that stand for them.  The BTree object of one command is a    *)
(* record m: the file (disk), the header, the cache dict (insertion        *)
(* ordered), the LRU list, and the heap of Node objects; a Node reference  *)
(* held by the code is an index into that heap, so that a reference to an  *)
(* evicted page is a reference to an object the cache no longer holds.     *)
(***************************************************************************)
EXTENDS Integers, Sequences, FiniteSets, TLC

VARIABLES
    exists,     \* os.path.exists(index_file)
    disk,       \* the index file: the sequence of its 512-byte blocks
    tree,       \* the BTree object of the last command, just before close()
    out,        \* the lines the last command printed
    status,     \* the exit status of the last command
    inserted,   \* history: the (key, value) pairs of the insert arguments and
                \* CSV rows that int() accepted, in order
    allocs,     \* history: the block indices handed out by next_block
    mode,       \* the workload: which key the next insert carries
    last        \* the last command run

vars == <<exists, disk, tree, out, status, inserted, allocs, mode, last>>

----------------------------------------------------------------------------
(* Program constants *)

BLOCK_SIZE == 512
\* the 8 bytes b"4348PRJ3", held as the one field they fill
MAGIC == 4348
T == 10
MAX_KEYS == 2 * T - 1
MAX_CHILDREN == 2 * T
CACHE_LIMIT == 3

BLOCK_WORDS == BLOCK_SIZE \div 8

----------------------------------------------------------------------------
(* Sequence helpers standing for Python list/dict operations *)

Remove(s, x) == SelectSeq(s, LAMBDA e : e # x)
Last(s) == s[Len(s)]
Front(s) == SubSeq(s, 1, Len(s) - 1)
Max2(a, b) == IF a >= b THEN a ELSE b

\* the function f, tabulated: its values are computed once, here, instead of
\* at every later application of f
Tab(f) == f @@ <<>>

\* int.to_bytes(8, "big", signed=False) raises OverflowError outside
\* 0..2^64-1; every integer of the model is below 2^64.
FitsU64(x) == x >= 0

----------------------------------------------------------------------------
(* Header *)

Header == [magic |-> MAGIC, root_block |-> 0, next_block |-> 1]

Header_to_bytes(h) ==
    Tab([w \in 0..BLOCK_WORDS-1 |->
        IF w = 0 THEN h.magic
        ELSE IF w = 1 THEN h.root_block
        ELSE IF w = 2 THEN h.next_block
        ELSE 0])

\* f.seek(b * BLOCK_SIZE); f.write(512 bytes): a write past the end of the
\* file leaves a hole that reads as zeros.
ZeroBlock == Tab([w \in 0..BLOCK_WORDS-1 |-> 0])

WriteBlock(d, b, data) ==
    Tab([i \in 1..Max2(Len(d), b + 1) |->
        IF i = b + 1 THEN data
        ELSE IF i <= Len(d) THEN d[i]
        ELSE ZeroBlock])

\* f.seek(b * BLOCK_SIZE); f.read(512) returns fewer bytes at the end of file
ReadOk(d, b) == b >= 0 /\ b + 1 <= Len(d)

----------------------------------------------------------------------------
(* Node *)

ZeroKeys == Tab([j \in 0..MAX_KEYS-1 |-> 0])
ZeroChildren == Tab([j \in 0..MAX_CHILDREN-1 |-> 0])

Node(block_id, parent_id) ==
    [block_id |-> block_id, parent_id |-> parent_id, num_keys |-> 0,
     keys |-> ZeroKeys, values |-> ZeroKeys, children |-> ZeroChildren,
     dirty |-> TRUE]

Node_from_bytes(data) ==
    [block_id |-> data[0], parent_id |-> data[1], num_keys |-> data[2],
     keys |-> Tab([j \in 0..MAX_KEYS-1 |-> data[3 + j]]),
     values |-> Tab([j \in 0..MAX_KEYS-1 |-> data[3 + MAX_KEYS + j]]),
     children |-> Tab([j \in 0..MAX_CHILDREN-1 |-> data[3 + 2 * MAX_KEYS + j]]),
     dirty |-> FALSE]

Node_to_bytes(n) ==
    Tab([w \in 0..BLOCK_WORDS-1 |->
        IF w = 0 THEN n.block_id
        ELSE IF w = 1 THEN n.parent_id
        ELSE IF w = 2 THEN n.num_keys
        ELSE IF w < 3 + MAX_KEYS THEN n.keys[w - 3]
        ELSE IF w < 3 + 2 * MAX_KEYS THEN n.values[w - 3 - MAX_KEYS]
        ELSE IF w < 3 + 2 * MAX_KEYS + MAX_CHILDREN
             THEN n.children[w - 3 - 2 * MAX_KEYS]
        ELSE 0])

Node_fits(n) ==
    /\ FitsU64(n.block_id) /\ FitsU64(n.parent_id) /\ FitsU64(n.num_keys)
    /\ \A j \in 0..MAX_KEYS-1 : FitsU64(n.keys[j]) /\ FitsU64(n.values[j])
    /\ \A j \in 0..MAX_CHILDREN-1 : FitsU64(n.children[j])

is_leaf(n) ==
    \A i \in 0..n.num_keys : n.children[i] = 0

----------------------------------------------------------------------------
(* The BTree object: m.exc names the exception that is propagating, ""    *)
(* when none is; every step below is skipped while one propagates.        *)

Raise(m, e) == [m EXCEPT !.exc = e]

\* Node.read(f, block_id): a fresh Node object on the heap; m.ret refers to it
Node_read(m, block_id) ==
    IF ~ReadOk(m.disk, block_id) THEN Raise(m, "ValueError")
    ELSE [m EXCEPT !.objs = Append(@, Node_from_bytes(m.disk[block_id + 1])),
                   !.ret = Len(m.objs) + 1]

\* node.write(f) for the Node object ref
Node_write(m, ref) ==
    LET n == m.objs[ref] IN
    IF ~Node_fits(n) THEN Raise(m, "OverflowError")
    ELSE [m EXCEPT !.disk = WriteBlock(@, n.block_id, Node_to_bytes(n)),
                   !.objs[ref].dirty = FALSE]

Header_write(m) ==
    [m EXCEPT !.disk = WriteBlock(@, 0, Header_to_bytes(m.header))]

----------------------------------------------------------------------------
(* NodeCache.  Each operator takes the BTree object m and returns it as    *)
(* the call leaves it; m.ret is the reference a call returns.              *)

InCache(m, block_id) == \E i \in 1..Len(m.cache) : m.cache[i].blk = block_id

CacheRef(m, block_id) ==
    (CHOOSE e \in {m.cache[i] : i \in 1..Len(m.cache)} : e.blk = block_id).obj

\* the Node object ref is the one the cache holds for its block
Resident(m, ref) == \E i \in 1..Len(m.cache) : m.cache[i].obj = ref

\* self.cache[block_id] = node
CachePut(m, block_id, ref) ==
    [m EXCEPT !.cache = Append(@, [blk |-> block_id, obj |-> ref]),
              !.peak = Max2(@, Len(m.cache) + 1)]

\* self.cache.pop(block_id)
CachePop(m, block_id) ==
    [m EXCEPT !.cache = SelectSeq(@, LAMBDA e : e.blk # block_id)]

_touch_fifo(m, block_id) ==
    IF \E i \in 1..Len(m.order) : m.order[i] = block_id THEN m
    ELSE [m EXCEPT !.order = <<block_id>> \o @]

_touch(m, block_id) ==
    [m EXCEPT !.order = <<block_id>> \o Remove(@, block_id)]

\* bookkeeping, apart from the LRU list: get or new_node has just handed out
\* the page of block_id; m.stamp[b] is the time block b was last handed out
Stamp(m, block_id) ==
    [m EXCEPT !.clock = @ + 1,
              !.stamp = Tab([b \in DOMAIN m.stamp \cup {block_id} |->
                            IF b = block_id THEN m.clock + 1 ELSE m.stamp[b]])]

\* the resident page handed out longest ago is the page of block_id
LeastRecent(m, block_id) ==
    \A i \in 1..Len(m.cache) : m.stamp[block_id] <= m.stamp[m.cache[i].blk]

\* the file's block of the Node object ref holds the object's fields
OnDisk(m, ref) ==
    /\ ReadOk(m.disk, m.objs[ref].block_id)
    /\ Node_from_bytes(m.disk[m.objs[ref].block_id + 1])
          = [m.objs[ref] EXCEPT !.dirty = FALSE]

\* if node.dirty: node.write(self.f)
WriteIfDirty(m, ref) ==
    IF m.objs[ref].dirty THEN Node_write(m, ref) ELSE m

\* bookkeeping of one eviction, m being the cache once the victim is gone:
\* whether the victim was the least recently used page, whether it was dirty,
\* whether the file now holds its fields, and the fields it left with
Evicted(m, block_id, ref, lru, wasDirty) ==
    IF m.exc # "" THEN m
    ELSE [m EXCEPT
            !.evictions = @ + 1,
            !.dirtyEvictions = @ + (IF wasDirty THEN 1 ELSE 0),
            !.lruOk = @ /\ lru,
            !.savedOk = @ /\ OnDisk(m, ref),
            !.gone = Tab([b \in DOMAIN m.gone \cup {block_id} |->
                         IF b = block_id THEN [m.objs[ref] EXCEPT !.dirty = FALSE]
                         ELSE m.gone[b]])]

\* victim = self.order.pop(); node = self.cache.pop(victim);
\* if node.dirty: node.write(self.f)
Evict(m, victim) ==
    Evicted(
        WriteIfDirty(CachePop([m EXCEPT !.order = Front(@)], victim),
                     CacheRef(m, victim)),
        victim, CacheRef(m, victim), LeastRecent(m, victim),
        m.objs[CacheRef(m, victim)].dirty)

\* while len(self.cache) > 3: victim = self.order.pop(); ...
RECURSIVE EvictLoop(_)
EvictLoop(m) ==
    IF m.exc # "" \/ Len(m.cache) <= CACHE_LIMIT THEN m
    ELSE IF m.order = <<>> THEN Raise(m, "IndexError")
    ELSE EvictLoop(Evict(m, Last(m.order)))

_evict_if_needed(m) ==
    IF Len(m.cache) <= CACHE_LIMIT THEN m ELSE EvictLoop(m)

\* if len(self.cache) >= 3: self._evict_if_needed()
MakeRoom(m) ==
    IF Len(m.cache) >= CACHE_LIMIT THEN _evict_if_needed(m) ELSE m

\* self.cache[block_id] = node; self._touch(block_id); return node
Admit(m, block_id) ==
    IF m.exc # "" THEN m
    ELSE Stamp(_touch(CachePut(m, block_id, m.ret), block_id), block_id)

\* node = Node.read(self.f, block_id), once room was made
\* bookkeeping: the page just read (m.ret) had been evicted by this BTree
\* object before; m.readBack records whether it came back as it left
ReadBack(m, block_id) ==
    IF m.exc # "" \/ block_id \notin DOMAIN m.gone THEN m
    ELSE [m EXCEPT !.rereads = @ + 1,
                   !.readBack = @ /\ (m.objs[m.ret] = m.gone[block_id])]

Load(m, block_id) ==
    IF m.exc # "" THEN m ELSE ReadBack(Node_read(m, block_id), block_id)

get(m, block_id) ==
    IF m.exc # "" THEN m
    ELSE IF InCache(m, block_id)
    THEN [Stamp(_touch(m, block_id), block_id) EXCEPT !.ret = CacheRef(m, block_id)]
    ELSE Admit(Load(MakeRoom(m), block_id), block_id)

\* node = Node(block_id=block_id, parent_id=parent_id), once room was made
Fresh(m, block_id, parent_id) ==
    IF m.exc # "" THEN m
    ELSE [m EXCEPT !.objs = Append(@, Node(block_id, parent_id)),
                   !.ret = Len(m.objs) + 1]

new_node(m, block_id, parent_id) ==
    IF m.exc # "" THEN m
    ELSE Admit(Fresh(MakeRoom(m), block_id, parent_id), block_id)

\* for node in self.cache.values(): if node.dirty: node.write(self.f)
RECURSIVE FlushFrom(_, _)
FlushFrom(m, i) ==
    IF m.exc # "" \/ i > Len(m.cache) THEN m
    ELSE FlushFrom(WriteIfDirty(m, m.cache[i].obj), i + 1)

flush_all_skip(m) == m

flush_all(m) == FlushFrom(m, 1)

----------------------------------------------------------------------------
(* BTree *)

None == <<>>
Some(v) == <<v>>

\* an assignment through the held reference ref; m.staleWr records that the
\* object assigned to was no longer the cache's page for its block
SetObj(m, ref, n) ==
    [m EXCEPT !.objs[ref] = n, !.staleWr = @ \/ ~Resident(m, ref)]

SetNumKeys(m, ref, v) == SetObj(m, ref, [m.objs[ref] EXCEPT !.num_keys = v])
SetParentId(m, ref, v) == SetObj(m, ref, [m.objs[ref] EXCEPT !.parent_id = v])
SetKeyValue(m, ref, j, k, v) ==
    SetObj(m, ref, [m.objs[ref] EXCEPT !.keys[j] = k, !.values[j] = v])
SetChild(m, ref, j, c) == SetObj(m, ref, [m.objs[ref] EXCEPT !.children[j] = c])
SetDirty_skip(m, ref) == m

SetDirty(m, ref) == SetObj(m, ref, [m.objs[ref] EXCEPT !.dirty = TRUE])

\* a read through the held reference ref, recorded likewise in m.staleRd
RdMark(m, ref) == [m EXCEPT !.staleRd = @ \/ ~Resident(m, ref)]

\* the objects nothing refers to once a call has returned are gone: the heap
\* keeps the cache's pages, numbered in the dict's order
Collect(m) ==
    [m EXCEPT !.objs = Tab([i \in 1..Len(m.cache) |-> m.objs[m.cache[i].obj]]),
              !.cache = Tab([i \in 1..Len(m.cache) |->
                            [blk |-> m.cache[i].blk, obj |-> i]]),
              !.ret = 0]

\* the fields of a BTree object over the file d, before its header is set:
\* header, NodeCache (cache, order), and the bookkeeping of one command
BTree(d) ==
    [disk |-> d, header |-> Header, cache |-> <<>>, order |-> <<>>,
     objs |-> <<>>, exc |-> "", ret |-> 0, res |-> None, visited |-> <<>>,
     peak |-> 0, staleWr |-> FALSE, staleRd |-> FALSE, handed |-> <<>>,
     clock |-> 0, stamp |-> <<>>, gone |-> <<>>, evictions |-> 0,
     dirtyEvictions |-> 0, rereads |-> 0, lruOk |-> TRUE, savedOk |-> TRUE,
     readBack |-> TRUE]

\* Header.from_file
Header_from_file(m) ==
    IF ~ReadOk(m.disk, 0) THEN Raise(m, "ValueError")
    ELSE IF m.disk[1][0] # MAGIC THEN Raise(m, "ValueError")
    ELSE [m EXCEPT !.header = [magic |-> m.disk[1][0],
                               root_block |-> m.disk[1][1],
                               next_block |-> m.disk[1][2]]]

\* BTree.__init__(filename, must_exist=True)
Open(ex, d) ==
    IF ~ex THEN Raise(BTree(d), "ValueError") ELSE Header_from_file(BTree(d))

\* BTree.__init__(filename, must_exist=False): mode "w+b" truncates
Create(ex) ==
    IF ex THEN Raise(BTree(<<>>), "ValueError") ELSE Header_write(BTree(<<>>))

\* self.header.write(self.f), once the cache was flushed
WriteHeader(m) == IF m.exc # "" THEN m ELSE Header_write(m)

close(m) == WriteHeader(flush_all(m))

\* while i < node.num_keys and key > node.keys[i]: i += 1
ScanUp(n, key) ==
    CHOOSE i \in 0..n.num_keys :
        /\ i = n.num_keys \/ ~(key > n.keys[i])
        /\ \A j \in 0..i-1 : key > n.keys[j]

RECURSIVE _search_node(_, _, _)
RECURSIVE SearchIn(_, _)

\* _search_node from line 201 on, node being m.ret
SearchIn(m, key) ==
    IF m.exc # "" THEN m
    ELSE LET node == m.objs[m.ret]
             i == ScanUp(node, key)
         IN IF i < node.num_keys /\ key = node.keys[i]
            THEN [m EXCEPT !.res = Some(node.values[i])]
            ELSE IF is_leaf(node) THEN [m EXCEPT !.res = None]
            ELSE IF node.children[i] = 0 THEN [m EXCEPT !.res = None]
            ELSE _search_node(m, node.children[i], key)

_search_node(m, block_id, key) == SearchIn(get(m, block_id), key)

search(m, key) ==
    IF m.exc # "" THEN m
    ELSE IF m.header.root_block = 0 THEN [m EXCEPT !.res = None]
    ELSE Collect(_search_node(m, m.header.root_block, key))

\* x = self.header.next_block; self.header.next_block += 1
Alloc_reuse(m) ==
    [m EXCEPT !.ret = m.header.next_block,
              !.handed = Append(@, m.header.next_block)]

Alloc(m) ==
    [m EXCEPT !.ret = m.header.next_block,
              !.header.next_block = @ + 1,
              !.handed = Append(@, m.header.next_block)]

\* new_child.num_keys = MAX_KEYS - T
SiblingKeys == MAX_KEYS - T

\* mid = T - 1
Mid_low == T - 2

Mid == T - 1

\* for j in range(new_child.num_keys): new_child.keys[j] = old_child.keys[j + T] ...
MoveKeys(m, old_child, new_child) ==
    LET cnt == m.objs[new_child].num_keys IN
    SetObj(m, new_child,
        [m.objs[new_child] EXCEPT
            !.keys = Tab([j \in 0..MAX_KEYS-1 |->
                IF j < cnt THEN m.objs[old_child].keys[j + T] ELSE @[j]]),
            !.values = Tab([j \in 0..MAX_KEYS-1 |->
                IF j < cnt THEN m.objs[old_child].values[j + T] ELSE @[j]])])

\* if not old_child.is_leaf(): new_child.children[j] = old_child.children[j + T]
MoveChildren(m, old_child, new_child) ==
    IF is_leaf(m.objs[old_child]) THEN m
    ELSE SetObj(m, new_child,
            [m.objs[new_child] EXCEPT
                !.children = Tab([j \in 0..MAX_CHILDREN-1 |->
                    IF j < MAX_KEYS - T + 1
                    THEN m.objs[old_child].children[j + T] ELSE @[j]])])

\* for j in range(mid, MAX_KEYS): old_child.keys[j] = 0; old_child.values[j] = 0
ClearKeys(m, old_child, mid) ==
    SetObj(m, old_child,
        [m.objs[old_child] EXCEPT
            !.keys = Tab([j \in 0..MAX_KEYS-1 |-> IF j >= mid THEN 0 ELSE @[j]]),
            !.values = Tab([j \in 0..MAX_KEYS-1 |-> IF j >= mid THEN 0 ELSE @[j]])])

ClearChildren_keep(m, old_child) == m

\* if not old_child.is_leaf(): for j in range(T, MAX_CHILDREN): children[j] = 0
ClearChildren(m, old_child) ==
    IF is_leaf(m.objs[old_child]) THEN m
    ELSE SetObj(m, old_child,
            [m.objs[old_child] EXCEPT
                !.children = Tab([j \in 0..MAX_CHILDREN-1 |->
                    IF j >= T THEN 0 ELSE @[j]])])

\* for j in range(parent.num_keys, i, -1): children[j + 1] = children[j]
\* parent.children[i + 1] = new_child_id
ShiftChildren_unlinked(children, n, i, new_child_id) ==
    Tab([j \in 0..MAX_CHILDREN-1 |->
        IF j > i + 1 /\ j <= n + 1 THEN children[j - 1] ELSE children[j]])

ShiftChildren(children, n, i, new_child_id) ==
    Tab([j \in 0..MAX_CHILDREN-1 |->
        IF j = i + 1 THEN new_child_id
        ELSE IF j > i + 1 /\ j <= n + 1 THEN children[j - 1]
        ELSE children[j]])

\* for j in range(parent.num_keys - 1, i - 1, -1): keys[j + 1] = keys[j]
ShiftKeys(keys, n, i) ==
    Tab([j \in 0..MAX_KEYS-1 |->
        IF j > i /\ j <= n THEN keys[j - 1] ELSE keys[j]])

\* lines 261-266; parent.children[n + 1] with n = MAX_KEYS is out of range
ShiftParent(m, parent, i, new_child_id) ==
    LET n == m.objs[parent].num_keys IN
    IF n >= MAX_KEYS THEN Raise(m, "IndexError")
    ELSE SetObj(m, parent,
            [m.objs[parent] EXCEPT
                !.children = ShiftChildren(@, n, i, new_child_id),
                !.keys = ShiftKeys(@, n, i),
                !.values = ShiftKeys(@, n, i)])

\* parent.keys[i] = old_child.keys[mid]; parent.values[i] = old_child.values[mid]
Promote(m, parent, i, old_child, mid) ==
    IF m.exc # "" THEN m
    ELSE SetKeyValue(m, parent, i, m.objs[old_child].keys[mid],
                     m.objs[old_child].values[mid])

\* lines 269-274
FinishSplit(m, parent, old_child, new_child, mid) ==
    IF m.exc # "" THEN m
    ELSE SetDirty(SetDirty(SetDirty(
            SetNumKeys(SetKeyValue(m, old_child, mid, 0, 0),
                       parent, m.objs[parent].num_keys + 1),
            parent), old_child), new_child)

\* _split_child from line 245 on
SplitNodes(m, parent, i, old_child, new_child, new_child_id, mid) ==
    IF m.exc # "" THEN m
    ELSE FinishSplit(
            Promote(
                ShiftParent(
                    SetNumKeys(
                        ClearChildren(
                            ClearKeys(
                                MoveChildren(
                                    MoveKeys(
                                        SetNumKeys(m, new_child, SiblingKeys),
                                        old_child, new_child),
                                    old_child, new_child),
                                old_child, mid),
                            old_child),
                        old_child, mid),
                    parent, i, new_child_id),
                parent, i, old_child, mid),
            parent, old_child, new_child, mid)

\* _split_child from line 245 on, new_child being m.ret
SplitNew(m, parent, i, old_child, new_child_id) ==
    IF m.exc # "" THEN m
    ELSE SplitNodes(m, parent, i, old_child, m.ret, new_child_id, Mid)

\* new_child = self.cache.new_node(new_child_id, parent.block_id); the rest
SplitInto(m, parent, i, old_child) ==
    SplitNew(new_node(m, m.ret, m.objs[parent].block_id),
             parent, i, old_child, m.ret)

\* _split_child from line 242 on, old_child being m.ret
SplitFetched(m, parent, i) ==
    IF m.exc # "" THEN m ELSE SplitInto(Alloc(m), parent, i, m.ret)

_split_child(m, parent, i) ==
    IF m.exc # "" THEN m
    ELSE SplitFetched(get(m, m.objs[parent].children[i]), parent, i)

\* i = node.num_keys - 1; while i >= 0 and key < node.keys[i]: i -= 1
ScanDown(n, key) ==
    CHOOSE i \in -1..n.num_keys-1 :
        /\ i = -1 \/ ~(key < n.keys[i])
        /\ \A j \in i+1..n.num_keys-1 : key < n.keys[j]

\* lines 279-286; node.keys[i + 1] with i + 1 = MAX_KEYS is out of range
LeafInsert(m, node, key, value) ==
    LET nd == m.objs[node]
        i == ScanDown(nd, key)
    IN IF nd.num_keys >= MAX_KEYS THEN Raise(m, "IndexError")
       ELSE SetObj(m, node,
              [nd EXCEPT
                 !.keys = Tab([j \in 0..MAX_KEYS-1 |->
                     IF j = i + 1 THEN key
                     ELSE IF j > i + 1 /\ j <= nd.num_keys THEN nd.keys[j - 1]
                     ELSE nd.keys[j]]),
                 !.values = Tab([j \in 0..MAX_KEYS-1 |->
                     IF j = i + 1 THEN value
                     ELSE IF j > i + 1 /\ j <= nd.num_keys THEN nd.values[j - 1]
                     ELSE nd.values[j]]),
                 !.num_keys = @ + 1,
                 !.dirty = TRUE])

RECURSIVE _insert_nonfull(_, _, _, _)
RECURSIVE Refetched(_, _, _)
RECURSIVE AfterSplit(_, _, _, _, _)
RECURSIVE Descend(_, _, _, _, _)

\* line 299, child being m.ret
Refetched(m, key, value) ==
    IF m.exc # "" THEN m ELSE _insert_nonfull(m, m.ret, key, value)

\* lines 295-298
AfterSplit(m, node, i, key, value) ==
    IF m.exc # "" THEN m
    ELSE Refetched(
            get(m, m.objs[node].children[
                    IF key > m.objs[node].keys[i] THEN i + 1 ELSE i]),
            key, value)

\* lines 293-299, child being m.ret
Descend(m, node, i, key, value) ==
    IF m.exc # "" THEN m
    ELSE IF m.objs[m.ret].num_keys = MAX_KEYS
    THEN AfterSplit(_split_child(m, node, i), node, i, key, value)
    ELSE _insert_nonfull(m, m.ret, key, value)

_insert_nonfull(m, node, key, value) ==
    IF m.exc # "" THEN m
    ELSE IF is_leaf(m.objs[node]) THEN LeafInsert(m, node, key, value)
    ELSE LET i == ScanDown(m.objs[node], key) + 1 IN
         Descend(get(m, m.objs[node].children[i]), node, i, key, value)

\* lines 219-222, root being m.ret
FirstPair(m, key, value) ==
    IF m.exc # "" THEN m
    ELSE SetDirty(SetKeyValue(SetNumKeys(m, m.ret, 1), m.ret, 0, key, value),
                  m.ret)

\* lines 229-233
LinkRoot(m, root, new_root, new_root_id) ==
    [SetDirty(
        SetParentId(
            SetChild(SetNumKeys(m, new_root, 0), new_root, 0,
                     m.objs[root].block_id),
            root, new_root_id),
        root)
     EXCEPT !.header.root_block = new_root_id]

\* lines 229-235, new_root being m.ret
GrowRoot(m, root, new_root_id, key, value) ==
    IF m.exc # "" THEN m
    ELSE _insert_nonfull(
            _split_child(LinkRoot(m, root, m.ret, new_root_id), m.ret, 0),
            m.ret, key, value)

\* lines 226-235
SplitRoot(m, root, key, value) ==
    GrowRoot(new_node(m, m.ret, 0), root, m.ret, key, value)

\* lines 225-237, root being m.ret
InsertAt(m, key, value) ==
    IF m.exc # "" THEN m
    ELSE IF m.objs[m.ret].num_keys = MAX_KEYS
    THEN SplitRoot(Alloc(m), m.ret, key, value)
    ELSE _insert_nonfull(m, m.ret, key, value)

\* lines 215-218
PlantRoot(m) ==
    new_node([m EXCEPT !.header.root_block = m.ret], m.ret, 0)

insert(m, key, value) ==
    IF m.exc # "" THEN m
    ELSE IF m.header.root_block = 0
    THEN Collect(FirstPair(PlantRoot(Alloc(m)), key, value))
    ELSE Collect(InsertAt(get(m, m.header.root_block), key, value))

RECURSIVE _traverse_node(_, _)
RECURSIVE TraverseFrom(_, _, _, _)
RECURSIVE Visit(_)

\* func(node.keys[i], node.values[i])
Emit(m, node, i) ==
    IF m.exc # "" THEN m
    ELSE [RdMark(m, node) EXCEPT
            !.visited = Append(@, <<m.objs[node].keys[i], m.objs[node].values[i]>>)]

\* if node.children[i] != 0: self._traverse_node(node.children[i], func)
Child(m, node, i) ==
    IF m.exc # "" THEN m
    ELSE IF m.objs[node].children[i] # 0
    THEN _traverse_node(RdMark(m, node), m.objs[node].children[i])
    ELSE RdMark(m, node)

\* the body of: for i in range(node.num_keys), from index i on
TraverseFrom(m, node, i, n) ==
    IF m.exc # "" \/ i >= n THEN m
    ELSE TraverseFrom(Emit(Child(m, node, i), node, i), node, i + 1, n)

\* lines 308-313, node being m.ret
Visit(m) ==
    IF m.exc # "" THEN m
    ELSE Child(TraverseFrom(m, m.ret, 0, m.objs[m.ret].num_keys),
               m.ret, m.objs[m.ret].num_keys)

_traverse_node(m, block_id) == Visit(get(m, block_id))

traverse(m) ==
    IF m.exc # "" \/ m.header.root_block = 0 THEN m
    ELSE Collect(_traverse_node(m, m.header.root_block))

----------------------------------------------------------------------------
(* Workloads: the arguments the commands are run with.  A command-line or  *)
(* CSV field is [int |-> TRUE, val |-> n] for the decimal text of n and    *)
(* NotInt for text int() rejects.                                          *)

MaxDeep == 212
MaxShallow == 45
KeyTop == 500
KeyMid == 250

Modes == {"asc", "asc0", "desc", "midout", "dup"}
Batches == {5, 30}

Str(n) == [int |-> TRUE, val |-> n]
NotInt == [int |-> FALSE, val |-> 0]

Limit(md) == IF md = "asc" THEN MaxDeep ELSE MaxShallow

\* the key of insert number n + 1 of workload md
NextKey(md, n) ==
    IF md = "asc" THEN n + 1
    ELSE IF md = "asc0" THEN n
    ELSE IF md = "desc" THEN KeyTop - n
    ELSE IF md = "midout"
         THEN IF n % 2 = 0 THEN KeyMid + n \div 2 ELSE KeyMid - (n + 1) \div 2
    ELSE n \div 2 + 1

NextValue(n) == 1000 + n

Row(md, n) == <<Str(NextKey(md, n)), Str(NextValue(n))>>

\* a CSV file: a short row, a row that is no integer, then b good rows
CsvRows(md, n, b) ==
    <<  <<Str(7)>>, <<NotInt, Str(1)>>  >>
        \o Tab([j \in 1..b |-> Row(md, n + j - 1)])

\* a CSV file of five rows that int() accepts, the third with a negative
\* key or a negative value
MaxBad == 12
BadFields == {"key", "value"}

BadRows(md, n, field) ==
    <<  Row(md, n), Row(md, n + 1),
        IF field = "key" THEN <<Str(0 - 1 - n), Str(NextValue(n + 2))>>
        ELSE <<Str(NextKey(md, n + 2)), Str(0 - 1 - n)>>,
        Row(md, n + 3), Row(md, n + 4)  >>

SearchArgs ==
    {Str(0), Str(999), NotInt}
        \cup {Str(inserted[j][1]) : j \in {1, T, Len(inserted)} \cap 1..Len(inserted)}

----------------------------------------------------------------------------
(* Commands.  A command that ends by an uncaught exception leaves the file *)
(* as written so far and exits with status 1.                              *)

NoTree == BTree(<<>>)

\* tree.close() and the end of the process
Finish(cmd, m, lines, code, pairs) ==
    /\ disk' = (IF m.exc = "" THEN close(m) ELSE m).disk
    /\ tree' = m
    /\ out' = lines
    /\ status' = IF (IF m.exc = "" THEN close(m) ELSE m).exc # "" THEN 1 ELSE code
    /\ inserted' = inserted \o pairs
    /\ allocs' = allocs \o m.handed
    /\ last' = cmd
    /\ UNCHANGED <<exists, mode>>

\* os.path.exists(index_file)
os_path_exists_never == FALSE

os_path_exists == exists

cmd_create ==
    IF os_path_exists
    THEN /\ out' = <<"Error: file exists">>
         /\ status' = 1
         /\ tree' = NoTree
         /\ last' = "create_exists"
         /\ UNCHANGED <<exists, disk, inserted, allocs, mode>>
    ELSE LET m == Create(os_path_exists)
             mc == close(m)
         IN /\ exists' = TRUE
            /\ disk' = mc.disk
            /\ tree' = m
            /\ out' = <<>>
            /\ status' = 0
            /\ last' = "create"
            /\ UNCHANGED <<inserted, allocs, mode>>

cmd_insert(key_str, value_str) ==
    LET m == Open(exists, disk) IN
    IF m.exc # "" THEN Finish("insert", m, <<>>, 1, <<>>)
    ELSE IF ~(key_str.int /\ value_str.int)
    THEN Finish("insert_badarg", m, <<"Error: key and value must be integers">>,
                1, <<>>)
    ELSE Finish("insert", insert(m, key_str.val, value_str.val), <<>>, 0,
                <<  <<key_str.val, value_str.val>>  >>)

\* print("Error: key not found") or print(f"{key} {res}")
SearchLines(m, key) ==
    IF m.exc # "" THEN <<>>
    ELSE IF m.res = None THEN <<"Error: key not found">>
    ELSE <<  <<key, m.res[1]>>  >>

Searched(m, key) == Finish("search", m, SearchLines(m, key), 0, <<>>)

cmd_search(key_str) ==
    LET m == Open(exists, disk) IN
    IF m.exc # "" THEN Finish("search", m, <<>>, 1, <<>>)
    ELSE IF ~key_str.int
    THEN Finish("search_badarg", m, <<"Error: key must be integer">>, 1, <<>>)
    ELSE Searched(search(m, key_str.val), key_str.val)

\* for row in reader: ... tree.insert(key, value)
RECURSIVE LoadRows(_, _, _)
LoadRows(m, rows, i) ==
    IF m.exc # "" \/ i > Len(rows) THEN m
    ELSE IF Len(rows[i]) < 2 THEN LoadRows(m, rows, i + 1)
    ELSE IF ~(rows[i][1].int /\ rows[i][2].int) THEN LoadRows(m, rows, i + 1)
    ELSE LoadRows(insert(m, rows[i][1].val, rows[i][2].val), rows, i + 1)

\* the rows of the file that reach tree.insert
Accepted(rows) ==
    LET good == SelectSeq(rows, LAMBDA r : Len(r) >= 2 /\ r[1].int /\ r[2].int)
    IN Tab([j \in 1..Len(good) |-> <<good[j][1].val, good[j][2].val>>])

cmd_load(rows) ==
    LET m == Open(exists, disk) IN
    IF m.exc # "" THEN Finish("load", m, <<>>, 1, <<>>)
    ELSE Finish("load", LoadRows(m, rows, 1), <<>>, 0, Accepted(rows))

Printed(m) == Finish("print", m, m.visited, 0, <<>>)

cmd_print ==
    LET m == Open(exists, disk) IN
    IF m.exc # "" THEN Finish("print", m, <<>>, 1, <<>>)
    ELSE Printed(traverse(m))

----------------------------------------------------------------------------

Init ==
    /\ exists = FALSE
    /\ disk = <<>>
    /\ tree = NoTree
    /\ out = <<>>
    /\ status = 0
    /\ inserted = <<>>
    /\ allocs = <<>>
    /\ mode \in Modes
    /\ last = "init"

Next ==
    \/ cmd_create
    \/ \E k \in {Str(NextKey(mode, Len(inserted))), NotInt} :
          /\ Len(inserted) < Limit(mode)
          /\ cmd_insert(k, Str(NextValue(Len(inserted))))
    \/ \E b \in Batches :
          /\ Len(inserted) + b <= Limit(mode)
          /\ cmd_load(CsvRows(mode, Len(inserted), b))
    \/ \E k \in SearchArgs : cmd_search(k)
    \/ cmd_print

Spec == Init /\ [][Next]_vars

\* the commands run on small indexes with CSV files that hold out-of-range rows
NextBad ==
    \/ cmd_create
    \/ /\ Len(inserted) < MaxBad
       /\ cmd_insert(Str(NextKey(mode, Len(inserted))), Str(NextValue(Len(inserted))))
    \/ \E field \in BadFields :
          /\ Len(inserted) + 5 <= MaxBad
          /\ cmd_load(BadRows(mode, Len(inserted), field))
    \/ \E k \in SearchArgs : cmd_search(k)
    \/ cmd_print

SpecBad == Init /\ [][NextBad]_vars

----------------------------------------------------------------------------
(* Observations of a BTree object, as its own methods make them *)

\* the last command opened the index and did not end by an exception
Built == exists /\ last \notin {"init", "create_exists"} /\ status = 0

\* what traverse hands to its visitor, in order
TraverseOf(m) == traverse([m EXCEPT !.visited = <<>>]).visited

\* what search returns
SearchOf(m, key) == search(m, key).res

\* the node of block b as the cache would return it
NodeAt(m, b) ==
    IF InCache(m, b) THEN m.objs[CacheRef(m, b)] ELSE Node_from_bytes(m.disk[b + 1])

\* the blocks reachable from block b by child pointers
RECURSIVE Reach(_, _)
Reach(m, b) ==
    LET nd == NodeAt(m, b) IN
    {b} \cup UNION {Reach(m, nd.children[j]) :
                        j \in {i \in 0..nd.num_keys : nd.children[i] # 0}}

Nodes(m) == IF m.header.root_block = 0 THEN {} ELSE Reach(m, m.header.root_block)

InsertedKeys == {inserted[i][1] : i \in 1..Len(inserted)}
InsertedPairs == {inserted[i] : i \in 1..Len(inserted)}
DistinctKeys == Cardinality(InsertedKeys) = Len(inserted)

SetMax(S) == CHOOSE x \in S : \A y \in S : y <= x

\* header.next_block as the file holds it
DiskNext == IF Len(disk) >= 1 THEN disk[1][2] ELSE 1

----------------------------------------------------------------------------
(* Claims *)

\* C1: after inserts of pairwise distinct keys, traverse visits exactly the
\* inserted pairs, once each, in strictly ascending key order.
C1_TraverseSortedExact ==
    (Built /\ DistinctKeys) =>
        LET t == TraverseOf(tree) IN
        /\ Len(t) = Len(inserted)
        /\ {t[i] : i \in 1..Len(t)} = InsertedPairs
        /\ \A i \in 1..Len(t)-1 : t[i][1] < t[i + 1][1]

\* C2: after inserts of pairwise distinct keys, search(k) returns the value
\* inserted with k, for every inserted key k.
C2_SearchFindsInserted ==
    (Built /\ DistinctKeys) =>
        \A i \in 1..Len(inserted) :
            SearchOf(tree, inserted[i][1]) = Some(inserted[i][2])

\* C3: search of a key that was never inserted returns absent.
C3_SearchAbsent ==
    Built =>
        \A k \in ({0, 999, NextKey(mode, Len(inserted))} \ InsertedKeys) :
            SearchOf(tree, k) = None

\* C4: after close, the reopened file answers search and traverse as the
\* in-memory tree did just before close.
C4_CloseReopen ==
    (Built /\ tree.exc = "") =>
        LET r == Open(exists, disk) IN
        /\ r.exc = ""
        /\ traverse([r EXCEPT !.visited = <<>>]).exc = ""
        /\ TraverseOf(r) = TraverseOf(tree)
        /\ \A k \in InsertedKeys \cup {0, 999, NextKey(mode, Len(inserted))} :
              SearchOf(r, k) = SearchOf(tree, k)

C4_Witness ==
    /\ Built /\ last = "load" /\ Len(inserted) >= 3 * T
    /\ \E i \in 1..Len(tree.objs) : tree.objs[i].dirty
    /\ Len(TraverseOf(tree)) = Len(inserted)

\* C5: the page cache never holds more than 3 pages.
C5_CacheAtMost3 == Len(tree.cache) <= 3 /\ tree.peak <= 3

\* C6: after inserts of distinct keys every non-root node has between T-1
\* and 2T-1 keys and the root between 1 and 2T-1.
C6_KeyCounts ==
    (Built /\ DistinctKeys) =>
        \A b \in Nodes(tree) :
            LET n == NodeAt(tree, b).num_keys IN
            /\ n <= 2 * T - 1
            /\ IF b = tree.header.root_block THEN n >= 1 ELSE n >= T - 1

\* some node below the root is itself internal: the root was split twice
Height3(m) ==
    \E b \in Nodes(m) : b # m.header.root_block /\ ~is_leaf(NodeAt(m, b))

C6_Witness == Built /\ DistinctKeys /\ Height3(tree)

\* C7: after inserts of distinct keys the keys of every node are strictly
\* increasing.
C7_NodeKeysIncreasing ==
    (Built /\ DistinctKeys) =>
        \A b \in Nodes(tree) :
            LET nd == NodeAt(tree, b) IN
            \A i \in 0..nd.num_keys-2 : nd.keys[i] < nd.keys[i + 1]

\* C8: an internal node with n keys has exactly the child slots 0..n
\* nonzero; a leaf has every child slot zero.
C8_ChildSlots ==
    Built =>
        \A b \in Nodes(tree) :
            LET nd == NodeAt(tree, b) IN
            IF is_leaf(nd)
            THEN \A j \in 0..MAX_CHILDREN-1 : nd.children[j] = 0
            ELSE \A j \in 0..MAX_CHILDREN-1 : (nd.children[j] # 0) <=> (j <= nd.num_keys)

C8_Witness == Built /\ Height3(tree) /\ Len(inserted) > 20 * T

\* C9: on a non-empty tree next_block is one more than the largest block
\* reachable from the root; next_block never decreases; no block index is
\* handed out twice.
C9_State ==
    /\ Cardinality({allocs[i] : i \in 1..Len(allocs)}) = Len(allocs)
    /\ (Built /\ tree.header.root_block # 0) =>
           tree.header.next_block = 1 + SetMax(Nodes(tree))

\* C9: the allocation state above holds always, and the next_block stored in
\* the file never decreases from one command to the next.
C9_NextBlock == [](C9_State) /\ [][DiskNext' >= DiskNext]_vars

C9_Witness == Built /\ Height3(tree) /\ Len(allocs) >= 2 * T + 4

\* C10: an insert of a key that is already stored is either rejected, leaving
\* the tree as it was, or overwrites the stored value; either way the tree
\* then holds one entry with that key.
StoredPairs == TraverseOf(Open(exists, disk))
StoredAfter == TraverseOf(Open(exists', disk'))

DuplicateInsert ==
    /\ Built /\ last' = "insert" /\ status' = 0
    /\ Len(inserted') = Len(inserted) + 1
    /\ inserted'[Len(inserted')][1] \in InsertedKeys

Overwritten(t, k, v) == [i \in 1..Len(t) |-> IF t[i][1] = k THEN <<k, v>> ELSE t[i]]

\* C10: every insert of an already stored key leaves the stored pairs
\* unchanged (rejected) or with that key's value replaced (overwritten), and
\* at most one entry with that key.
C10_DuplicatePolicy ==
    [][DuplicateInsert =>
          LET k == inserted'[Len(inserted')][1]
              v == inserted'[Len(inserted')][2]
          IN /\ \/ StoredAfter = StoredPairs
                \/ StoredAfter = Overwritten(StoredPairs, k, v)
             /\ Cardinality({i \in 1..Len(StoredAfter) : StoredAfter[i][1] = k}) <= 1
      ]_vars

\* C11: a search command whose key is not found prints the line
\* "Error: key not found" and ends with a non-zero exit status.
C11_SearchMissExit ==
    (last = "search" /\ tree.exc = "" /\ tree.res = None) =>
        (out = <<"Error: key not found">> /\ status # 0)

\* C12: a load whose file holds rows with a negative key or value skips those
\* rows and does not abort: it ends normally, the file reopens, every
\* in-range pair loaded so far is found, and no out-of-range pair is stored.
InRange(pair) == FitsU64(pair[1]) /\ FitsU64(pair[2])

C12_LoadSkipsOutOfRange ==
    (exists /\ last = "load") =>
        /\ status = 0
        /\ LET r == Open(exists, disk) IN
           /\ r.exc = ""
           /\ \A i \in 1..Len(inserted) :
                 InRange(inserted[i]) => SearchOf(r, inserted[i][1]) # None
           /\ \A i \in 1..Len(TraverseOf(r)) : InRange(TraverseOf(r)[i])

C14_RootAfter2T ==
    (mode = "asc" /\ Built /\ Len(inserted) = 2 * T) =>
        LET root == NodeAt(tree, tree.header.root_block) IN
        /\ root.num_keys = 1
        /\ root.keys[0] = T
        /\ \A j \in 0..1 :
              /\ root.children[j] # 0
              /\ NodeAt(tree, root.children[j]).num_keys = T - 1

\* the calls _split_child(parent, i) that an insert into the tree m can make:
\* below a node that is not full, on a child that is full
SplitCalls(m) ==
    {c \in Nodes(m) \X (0..MAX_KEYS-1) :
        LET p == NodeAt(m, c[1]) IN
        /\ ~is_leaf(p) /\ p.num_keys < MAX_KEYS /\ c[2] <= p.num_keys
        /\ NodeAt(m, p.children[c[2]]).num_keys = MAX_KEYS}

\* the tree m as insert has it at its call _split_child(new_root, 0)
AtRootSplit(m) ==
    LET m1 == get(m, m.header.root_block)
        m2 == Alloc(m1)
        m3 == new_node(m2, m2.ret, 0)
    IN LinkRoot(m3, m1.ret, m3.ret, m2.ret)

\* what C15 says of the call _split_child(parent, i) made in the tree mb,
\* parent being the Node object mb.ret
SplitAsSpecified(mb, i) ==
    LET par == mb.ret
        p0 == mb.objs[par]
        n == p0.num_keys
        c0 == NodeAt(mb, p0.children[i])
        s == _split_child(mb, par, i)
        p1 == s.objs[par]
        c1 == NodeAt(s, p0.children[i])
        sib == NodeAt(s, p1.children[i + 1])
    IN /\ s.exc = ""
       /\ p1.keys[i] = c0.keys[T - 1] /\ p1.values[i] = c0.values[T - 1]
       /\ c1.num_keys = T - 1
       /\ \A j \in 0..T-2 : c1.keys[j] = c0.keys[j] /\ c1.values[j] = c0.values[j]
       /\ p1.children[i] = p0.children[i]
       /\ p1.children[i + 1] = mb.header.next_block
       /\ sib.num_keys = T - 1
       /\ \A j \in 0..T-2 :
             sib.keys[j] = c0.keys[j + T] /\ sib.values[j] = c0.values[j + T]
       /\ ~is_leaf(c0) => \A j \in 0..T-1 : sib.children[j] = c0.children[j + T]
       /\ \A j \in 0..i-1 : p1.keys[j] = p0.keys[j] /\ p1.values[j] = p0.values[j]
       /\ \A j \in i..n-1 :
             p1.keys[j + 1] = p0.keys[j] /\ p1.values[j + 1] = p0.values[j]
       /\ \A j \in i+1..n : p1.children[j + 1] = p0.children[j]
       /\ p1.num_keys = n + 1

\* C15: every call _split_child(parent, i) on a full child promotes the
\* child's pair T-1 to parent slot i, keeps the pairs 0..T-2 in the old child,
\* moves the pairs T..2T-2 (and children T..2T-1) to the new sibling, links
\* the sibling at parent.children[i+1], shifts the parent's later keys and
\* children one slot right and adds one to the parent's key count.
C15_SplitChild ==
    (Built /\ tree.header.root_block # 0) =>
        /\ NodeAt(tree, tree.header.root_block).num_keys = MAX_KEYS =>
              SplitAsSpecified(AtRootSplit(tree), 0)
        /\ \A c \in SplitCalls(tree) : SplitAsSpecified(get(tree, c[1]), c[2])

\* C16: every eviction takes the resident page that get/new_node handed out
\* longest ago and leaves the victim's fields in its file block (written if
\* dirty); a block evicted and read again comes back as it left, and after
\* the command the file holds every evicted page as it was when evicted.
C16_EvictionWriteBack ==
    /\ tree.lruOk /\ tree.savedOk /\ tree.readBack
    /\ Built =>
          \A b \in DOMAIN tree.gone :
              ~InCache(tree, b) =>
                  ReadOk(disk, b) /\ Node_from_bytes(disk[b + 1]) = tree.gone[b]

C16_Witness ==
    /\ Built /\ last = "load" /\ Height3(tree)
    /\ tree.dirtyEvictions >= 2
    /\ \E b \in DOMAIN tree.gone : ~InCache(tree, b)

\* C17: in every node reachable from the root, with n keys, the key and
\* value slots n.. and the child slots n+1.. are zero.
C17_UnusedSlotsZero ==
    Built =>
        \A b \in Nodes(tree) :
            LET nd == NodeAt(tree, b) IN
            /\ \A j \in nd.num_keys..MAX_KEYS-1 : nd.keys[j] = 0 /\ nd.values[j] = 0
            /\ \A j \in nd.num_keys+1..MAX_CHILDREN-1 : nd.children[j] = 0

C17_Witness ==
    /\ Built /\ Height3(tree) /\ last \in {"insert", "load"}
    /\ \E b \in Nodes(tree) : NodeAt(tree, b).num_keys = T - 1

\* C18: whenever _traverse_node reads keys, values or children through its
\* node handle, that Node object is still the cache's page for its block.
C18_TraverseResident == last = "print" => ~tree.staleRd

\* C19: every assignment insert, _split_child and _insert_nonfull make to a
\* node goes to the Node object the cache holds for the block, and the node is
\* marked dirty: a page that is not dirty equals its file block, in the cache
\* and at its eviction.
C19_MutatedResidentDirty ==
    /\ ~tree.staleWr
    /\ tree.savedOk
    /\ (Built /\ last \in {"insert", "load"}) =>
          \A i \in 1..Len(tree.cache) :
              tree.objs[tree.cache[i].obj].dirty \/ OnDisk(tree, tree.cache[i].obj)

C19_Witness ==
    /\ Built /\ last = "load" /\ Height3(tree) /\ tree.dirtyEvictions >= 1
    /\ Len(tree.handed) >= 3

\* C20: the root's parent field is 0 and every other reachable node's parent
\* field is the block of the node whose children hold it.
C20_ParentPointers ==
    (Built /\ tree.header.root_block # 0) =>
        /\ NodeAt(tree, tree.header.root_block).parent_id = 0
        /\ \A b \in Nodes(tree) :
              LET nd == NodeAt(tree, b) IN
              \A j \in 0..nd.num_keys :
                  nd.children[j] # 0 => NodeAt(tree, nd.children[j]).parent_id = b

====
